---- MODULE Spec2Model ----
(***************************************************************************)
(* A model of energy_monitor.py: two MQTT topics (Fronius inverter,        *)
(* Sungrow battery) feed two cumulative dictionaries; every message        *)
(* recomputes an 8x8 LED matrix and its text twin from the dictionaries.   *)
(*                                                                         *)
(* Numbers.  Payload values are JSON numbers.  The model represents the    *)
(* number x by the integer 1000 * x (three decimals), so 87.5 is 87500     *)
(* and 0.624 is 624.  Every constant the program divides by (625, 12.5)    *)
(* and every bar boundary is a multiple of 1/8, which binary floating      *)
(* point holds exactly, so on this domain the program's float arithmetic   *)
(* agrees with the exact arithmetic below.                                 *)
(***************************************************************************)
EXTENDS Integers, Sequences, FiniteSets, TLC

VARIABLES
    cumulative_fronius_values,  \* dict, source lines 80-85
    cumulative_sungrow_values,  \* dict, source lines 87-93
    led,            \* the led_* locals of the last update_senseHatLED call
    pixels,         \* what the SenseHat was asked to show: pixels[x][y]
    cli_matrix,     \* the global text grid: cli_matrix[a][b]
    stdout,         \* the last block print_cli_matrix wrote (<<>>: none yet)
    raised,         \* the exception that left the last on_message call
    running,        \* the network loop thread is still delivering messages
    received,       \* history: the messages taken from the broker, in order
    pc,             \* per loop thread: its position inside on_message
    cur             \* per loop thread: the message it is handling

vars == <<cumulative_fronius_values, cumulative_sungrow_values, led, pixels,
          cli_matrix, stdout, raised, running, received, pc, cur>>

----------------------------------------------------------------------------
(* Fixed-point numbers and the Python arithmetic the program uses.         *)

\* the integer that stands for the number n (n * 1000)
Num(n) == n * 1000

\* Python int(): truncation toward zero of the quotient a / b, b > 0
PyInt(a, b) == IF a >= 0 THEN a \div b ELSE -((-a) \div b)

\* Python min()
PyMin(a, b) == IF a < b THEN a ELSE b

\* mutant: the kilowatt value used as if it were watts
KilowattsAsWatts(x) == x

\* x *= 1000 on a fixed-point number
TimesThousand(x) == x * 1000

----------------------------------------------------------------------------
(* Colours, topics, keys.                                                  *)

red         == <<255, 0, 0>>
green       == <<0, 255, 0>>
darkblue    == <<0, 0, 139>>
lightgreen  == <<153, 255, 153>>
purple      == <<128, 0, 128>>
lightpurple == <<196, 64, 196>>
orange      == <<255, 165, 0>>
\* sense.clear() with no argument paints every pixel (0, 0, 0)
blank       == <<0, 0, 0>>

fronius_topic == "home/fronius"
sungrow_topic == "home/sungrow"
Topics == {fronius_topic, sungrow_topic}

FroniusKeys == {"pvImport", "pvExport", "pvLoad", "pvGeneration"}
SungrowKeys == {"Purchased_Power", "Total_Export_Active__Power",
                "Battery_Charging_Power", "Battery_Discharging_Power",
                "Battery_Level_SOC"}

Cells == 0..7

----------------------------------------------------------------------------
(* The two cumulative dictionaries and the merge.                          *)

InitFronius == [f_pvimport |-> 0, f_pvexport |-> 0, f_pvload |-> 0,
                f_pvgeneration |-> 0]

InitSungrow == [sg_purchased_power |-> 0,
                sg_total_export_active__power |-> 0,
                sg_battery_charging_power |-> 0,
                sg_battery_discharging_power |-> 0,
                sg_battery_level_soc |-> 0]

\* dict.get(key, default) on a decoded payload (a function on its keys)
Get(payload, key, default) ==
    IF key \in DOMAIN payload THEN payload[key] ELSE default

\* mutant: a key the payload omits falls back to 0, not to the stored value
update_fronius_defaults_zero(f, payload) ==
    [f_pvimport     |-> Get(payload, "pvImport", 0),
     f_pvexport     |-> Get(payload, "pvExport", 0),
     f_pvload       |-> Get(payload, "pvLoad", 0),
     f_pvgeneration |-> Get(payload, "pvGeneration", 0)]

update_cumulative_fronius_values(f, payload) ==
    [f_pvimport     |-> Get(payload, "pvImport", f.f_pvimport),
     f_pvexport     |-> Get(payload, "pvExport", f.f_pvexport),
     f_pvload       |-> Get(payload, "pvLoad", f.f_pvload),
     f_pvgeneration |-> Get(payload, "pvGeneration", f.f_pvgeneration)]

update_cumulative_sungrow_values(s, payload) ==
    [sg_purchased_power |->
        Get(payload, "Purchased_Power", s.sg_purchased_power),
     sg_total_export_active__power |->
        Get(payload, "Total_Export_Active__Power",
            s.sg_total_export_active__power),
     sg_battery_charging_power |->
        Get(payload, "Battery_Charging_Power", s.sg_battery_charging_power),
     sg_battery_discharging_power |->
        Get(payload, "Battery_Discharging_Power",
            s.sg_battery_discharging_power),
     sg_battery_level_soc |->
        Get(payload, "Battery_Level_SOC", s.sg_battery_level_soc)]

----------------------------------------------------------------------------
(* update_senseHatLED: scaling, clearing, painting, printing.              *)

\* lines 188-192: int(value / 625), then min(.., 8)
ScalePower(value) == PyMin(PyInt(value, Num(625)), 8)

\* mutant: the battery level scaled like the Sungrow power values
ScaleSocAsPower(value) == ScalePower(TimesThousand(value))

\* line 205: int(sg_battery_level_soc / 12.5)
ScaleSoc(value) == PyInt(value, 12500)

\* lines 169-205: the nine led_* values from the nine arguments
ComputeLeds(f, s) ==
    [f_pvimport     |-> ScalePower(f.f_pvimport),
     f_pvexport     |-> ScalePower(f.f_pvexport),
     f_pvgeneration |-> ScalePower(f.f_pvgeneration),
     f_pvload       |-> ScalePower(f.f_pvload),
     sg_purchased_power |->
        ScalePower(TimesThousand(s.sg_purchased_power)),
     sg_total_export_active__power |->
        ScalePower(TimesThousand(s.sg_total_export_active__power)),
     sg_battery_charging_power |->
        ScalePower(TimesThousand(s.sg_battery_charging_power)),
     sg_battery_discharging_power |->
        ScalePower(TimesThousand(s.sg_battery_discharging_power)),
     sg_battery_level_soc |-> ScaleSoc(s.sg_battery_level_soc)]

\* lines 210-214: sense.clear() and the fresh cli_matrix
ClearedPixels == [x \in Cells |-> [y \in Cells |-> blank]]
ClearedCli    == [a \in Cells |-> [b \in Cells |-> "O"]]
\* mutant: the two clearing statements forgotten, painting over the old grids
NotCleared == [pixels |-> pixels, cli |-> cli_matrix, err |-> FALSE]

Cleared == [pixels |-> ClearedPixels, cli |-> ClearedCli, err |-> FALSE]

\* One loop "for i in range(n): sense.set_pixel(x, i, colour);
\* cli_matrix[x][i] = sym", from iteration i on.  Iteration 8 raises: the
\* SenseHat rejects y = 8 (ValueError), the mock accepts it and the list
\* index 8 is out of range (IndexError); nothing is written in either case.
\* mutant: the bar painted from row 7 downward, as animate_battery does
RECURSIVE PaintLoopTopDown(_, _, _, _, _, _)
PaintLoopTopDown(d, x, i, n, colour, sym) ==
    IF i >= n THEN d
    ELSE IF i \notin Cells THEN [d EXCEPT !.err = TRUE]
    ELSE PaintLoopTopDown([d EXCEPT !.pixels[x][7 - i] = colour,
                                    !.cli[x][7 - i] = sym],
                          x, i + 1, n, colour, sym)

RECURSIVE PaintLoop(_, _, _, _, _, _)
PaintLoop(d, x, i, n, colour, sym) ==
    IF i >= n THEN d
    ELSE IF i \notin Cells THEN [d EXCEPT !.err = TRUE]
    ELSE PaintLoop([d EXCEPT !.pixels[x][i] = colour, !.cli[x][i] = sym],
                   x, i + 1, n, colour, sym)

\* "if n > 0: for i in range(n): ..." (skipped once an exception is in flight)
PaintBar(d, x, n, colour, sym) ==
    IF d.err \/ ~(n > 0) THEN d ELSE PaintLoop(d, x, 0, n, colour, sym)

\* mutant: the two branches in the other order, charging first
PaintBatteryChargingFirst(d, l) ==
    IF l.sg_battery_charging_power > 0
    THEN PaintBar(d, 6, l.sg_battery_charging_power, lightpurple, "p")
    ELSE PaintBar(d, 6, l.sg_battery_discharging_power, purple, "P")

\* lines 247-254: discharging, elif charging
PaintBattery(d, l) ==
    IF l.sg_battery_discharging_power > 0
    THEN PaintBar(d, 6, l.sg_battery_discharging_power, purple, "P")
    ELSE PaintBar(d, 6, l.sg_battery_charging_power, lightpurple, "p")

\* lines 216-260: the eight columns in the order the code paints them
Paint(l) ==
    LET d0 == PaintBar(Cleared, 0, l.f_pvexport, green, "G")
        d1 == PaintBar(d0, 1, l.sg_total_export_active__power, green, "G")
        d2 == PaintBar(d1, 2, l.f_pvimport, red, "R")
        d3 == PaintBar(d2, 3, l.sg_purchased_power, red, "R")
        d4 == PaintBar(d3, 4, l.f_pvload, orange, "r")
        d5 == PaintBar(d4, 5, l.f_pvgeneration, lightgreen, "g")
        d6 == PaintBattery(d5, l)
    IN  PaintBar(d6, 7, l.sg_battery_level_soc, darkblue, "B")

\* ' '.join(row): the eight symbols with single spaces between them
Join(row) == [k \in 1..15 |-> IF k % 2 = 1 THEN row[(k - 1) \div 2] ELSE " "]

Header == <<"1", " ", "2", " ", "3", " ", "4", " ", "5", " ", "6", " ", "7",
            " ", "8">>

\* lines 70-74: the header, one line per element of matrix, an empty line
print_cli_matrix(matrix) ==
    <<Header>> \o [k \in 1..8 |-> Join(matrix[k - 1])] \o << <<>> >>

\* what one call leaves behind: the led_* values l, the painted grids d and
\* the text written (line 267 is not reached when the painting raised)
Outcome(l, d, out) ==
    [led |-> l, pixels |-> d.pixels, cli |-> d.cli, err |-> d.err,
     stdout |-> IF d.err THEN out ELSE print_cli_matrix(d.cli)]

\* lines 157-267, called at line 102 with both dictionaries
update_senseHatLED(f, s, out) ==
    Outcome(ComputeLeds(f, s), Paint(ComputeLeds(f, s)), out)

----------------------------------------------------------------------------
(* Messages.  A message is a topic and a body; json.loads either decodes   *)
(* the body to a dictionary (ok, payload) or raises.                       *)

NoPayload == [k \in {} |-> 0]

Msg(topic, payload) == [topic |-> topic, ok |-> TRUE, payload |-> payload]
Undecodable(topic)  == [topic |-> topic, ok |-> FALSE, payload |-> NoPayload]

\* mutant: callbacks run on two threads at once
TwoThreads == {1, 2}

\* the loop threads loop_start() creates (line 276): one
Threads == {1}

NoMsg == Undecodable("")

----------------------------------------------------------------------------
(* on_message, lines 96-102.                                               *)

\* lines 98-101: the dictionaries after the topic dispatch
MergedFronius(m) ==
    IF m.topic = fronius_topic
    THEN update_cumulative_fronius_values(cumulative_fronius_values, m.payload)
    ELSE cumulative_fronius_values

MergedSungrow(m) ==
    IF m.topic = fronius_topic
    THEN cumulative_sungrow_values
    ELSE IF m.topic = sungrow_topic
    THEN update_cumulative_sungrow_values(cumulative_sungrow_values, m.payload)
    ELSE cumulative_sungrow_values

\* An exception leaves on_message.  The source wraps neither the callback nor
\* its body in try/except and creates the client with its defaults (line
\* 271), so the exception unwinds the loop thread that called the callback:
\* that thread ends and no later message is delivered.
Raise(exc) ==
    /\ raised' = exc
    /\ running' = FALSE

\* line 97 raising: nothing else has run
LoadsFails ==
    /\ Raise("JSONDecodeError")
    /\ UNCHANGED <<cumulative_fronius_values, cumulative_sungrow_values, led,
                   pixels, cli_matrix, stdout>>

\* line 102 with the dictionaries f and s
Render(f, s) ==
    \E r \in {update_senseHatLED(f, s, stdout)} :
        /\ led' = r.led
        /\ pixels' = r.pixels
        /\ cli_matrix' = r.cli
        /\ stdout' = r.stdout
        /\ IF r.err
           THEN \E exc \in {"ValueError", "IndexError"} : Raise(exc)
           ELSE raised' = "none" /\ UNCHANGED running

\* the whole callback for message m
on_message(m) ==
    IF ~m.ok
    THEN LoadsFails
    ELSE /\ cumulative_fronius_values' = MergedFronius(m)
         /\ cumulative_sungrow_values' = MergedSungrow(m)
         /\ Render(MergedFronius(m), MergedSungrow(m))

\* line 284: the main thread only sleeps
MainSleep == UNCHANGED vars

Init ==
    /\ cumulative_fronius_values = InitFronius
    /\ cumulative_sungrow_values = InitSungrow
    /\ led = ComputeLeds(InitFronius, InitSungrow)
    /\ pixels = ClearedPixels
    /\ cli_matrix = ClearedCli
    /\ stdout = <<>>
    /\ raised = "none"
    /\ running = TRUE
    /\ received = <<>>
    /\ pc = [t \in Threads |-> "idle"]
    /\ cur = [t \in Threads |-> NoMsg]

----------------------------------------------------------------------------
(* Spec: any sequence of messages from a product alphabet.                 *)

\* the most keys one payload of the alphabet carries
MaxKeys == 1

UnknownKey == "Daily_Yield"
AllKeys == FroniusKeys \cup SungrowKeys \cup {UnknownKey}

\* the values a key carries in the alphabet (watts for the Fronius keys,
\* kilowatts and percent for the Sungrow keys)
Vals(k) ==
    CASE k = "pvExport"     -> {0, Num(1250), Num(4000)}
      [] k = "pvImport"     -> {0, Num(625)}
      [] k = "pvLoad"       -> {0, Num(-625)}
      [] k = "pvGeneration" -> {0, Num(6000)}
      [] k = "Purchased_Power"            -> {0, 625}
      [] k = "Total_Export_Active__Power" -> {0, Num(9)}
      [] k = "Battery_Charging_Power"     -> {0, Num(5)}
      [] k = "Battery_Discharging_Power"  -> {0, Num(2), Num(-1)}
      [] k = "Battery_Level_SOC"          -> {0, 87500, 112500}
      [] OTHER -> {Num(1)}

AllVals == UNION {Vals(k) : k \in AllKeys}

PayloadsOn(K) == {p \in [K -> AllVals] : \A k \in K : p[k] \in Vals(k)}

Payloads ==
    UNION {PayloadsOn(K) : K \in {S \in SUBSET AllKeys : Cardinality(S) <= MaxKeys}}

Messages ==
    {Msg(t, p) : t \in Topics, p \in Payloads} \cup {Undecodable(t) : t \in Topics}

OnMessage(m) ==
    /\ running
    /\ on_message(m)
    /\ UNCHANGED <<received, pc, cur>>

Next ==
    \/ \E m \in Messages : OnMessage(m)
    \/ MainSleep

Spec == Init /\ [][Next]_vars

----------------------------------------------------------------------------
(* SpecLog: the same callback, with the messages delivered kept in         *)
(* `received` and a smaller alphabet.                                      *)

\* the most messages one behaviour of SpecLog and SpecLoop delivers
MaxMsgs == 3

One(key, value) == [k \in {key} |-> value]

\* the value the single-key payload of a key carries
LogVal(key) ==
    CASE key = "pvExport"     -> Num(4000)
      [] key = "pvImport"     -> Num(625)
      [] key = "pvLoad"       -> Num(-625)
      [] key = "pvGeneration" -> Num(6000)
      [] key = "Purchased_Power"            -> 625
      [] key = "Total_Export_Active__Power" -> Num(9)
      [] key = "Battery_Charging_Power"     -> Num(5)
      [] key = "Battery_Discharging_Power"  -> Num(2)
      [] key = "Battery_Level_SOC"          -> 87500
      [] OTHER -> Num(1)

\* {"pvExport": 4000, "pvImport": 0}
ExportImport == [k \in {"pvExport", "pvImport"} |->
                    IF k = "pvExport" THEN Num(4000) ELSE 0]

\* every key of both sources and an unknown one, each with a value of its own
Everything == [k \in AllKeys |-> LogVal(k) + 1000]

\* the keys that also come alone in a payload
SingleKeys == {"pvExport", "pvImport", "Purchased_Power",
               "Battery_Discharging_Power", "Battery_Level_SOC", UnknownKey}

LogPayloads ==
    {NoPayload, ExportImport, Everything, One("pvExport", Num(1250))}
        \cup {One(k, LogVal(k)) : k \in SingleKeys}

LogMessages ==
    {Msg(t, p) : t \in Topics, p \in LogPayloads} \cup {Undecodable(sungrow_topic)}

Deliver(m) ==
    /\ running
    /\ Len(received) < MaxMsgs
    /\ on_message(m)
    /\ received' = Append(received, m)
    /\ UNCHANGED <<pc, cur>>

NextLog ==
    \/ \E m \in LogMessages : Deliver(m)
    \/ MainSleep

SpecLog == Init /\ [][NextLog]_vars

----------------------------------------------------------------------------
(* SpecLoop: the callback as the steps of the loop thread that runs it.    *)

LoopMessages ==
    {Msg(fronius_topic, ExportImport),
     Msg(fronius_topic, One("pvExport", Num(1250))),
     Msg(fronius_topic, One("pvGeneration", Num(6000))),
     Msg(sungrow_topic, One("Battery_Level_SOC", 87500)),
     Msg(sungrow_topic, One("Battery_Level_SOC", 112500)),
     Msg(sungrow_topic, One("Battery_Discharging_Power", Num(2))),
     Msg(sungrow_topic, One("Battery_Charging_Power", Num(5))),
     Undecodable(fronius_topic)}

\* the loop thread takes the next message off the connection and calls
\* on_message with it; it does so only between two calls
Recv(t, m) ==
    /\ running
    /\ pc[t] = "idle"
    /\ Len(received) < MaxMsgs
    /\ received' = Append(received, m)
    /\ cur' = [cur EXCEPT ![t] = m]
    /\ pc' = [pc EXCEPT ![t] = "loads"]
    /\ UNCHANGED <<cumulative_fronius_values, cumulative_sungrow_values, led,
                   pixels, cli_matrix, stdout, raised, running>>

\* lines 97-101: json.loads and the merge into the topic's dictionary
LoadsAndMerge(t) ==
    /\ pc[t] = "loads"
    /\ IF ~cur[t].ok
       THEN /\ LoadsFails
            /\ pc' = [pc EXCEPT ![t] = "idle"]
       ELSE /\ cumulative_fronius_values' = MergedFronius(cur[t])
            /\ cumulative_sungrow_values' = MergedSungrow(cur[t])
            /\ pc' = [pc EXCEPT ![t] = "update"]
            /\ UNCHANGED <<led, pixels, cli_matrix, stdout, raised, running>>
    /\ UNCHANGED <<received, cur>>

\* line 102: update_senseHatLED with the dictionaries as they are now
Update(t) ==
    /\ pc[t] = "update"
    /\ Render(cumulative_fronius_values, cumulative_sungrow_values)
    /\ pc' = [pc EXCEPT ![t] = "idle"]
    /\ UNCHANGED <<cumulative_fronius_values, cumulative_sungrow_values,
                   received, cur>>

NextLoop ==
    \/ \E t \in Threads, m \in LoopMessages : Recv(t, m)
    \/ \E t \in Threads : LoadsAndMerge(t)
    \/ \E t \in Threads : Update(t)
    \/ MainSleep

SpecLoop == Init /\ [][NextLoop]_vars

----------------------------------------------------------------------------
(* SpecScale: the scaling as a function of one value.  One message with    *)
(* one key is delivered to the freshly started program, its value swept    *)
(* over a range around every bar boundary.                                 *)

\* the sweep of the power keys: whole watts from -NegWatts to MaxWatts
NegWatts == 1300
MaxWatts == 5700

\* the sweep of the battery level: tenths of a percent, from -NegTenths
\* to MaxTenths
NegTenths == 130
MaxTenths == 1300

PowerKeys == (FroniusKeys \cup SungrowKeys) \ {"Battery_Level_SOC"}

TopicOf(key) == IF key \in FroniusKeys THEN fronius_topic ELSE sungrow_topic

\* a Fronius value of w watts is the number w; a Sungrow value of w watts
\* is the number w / 1000 (kilowatts)
SweepValue(key, w) == IF key \in FroniusKeys THEN Num(w) ELSE w

\* values far above the nominal range, in watts
FarWatts == {10000, 1000000}

SweepWatts == (-NegWatts..MaxWatts) \cup FarWatts
SweepTenths == -NegTenths..MaxTenths

PowerProbe(key, w) == Msg(TopicOf(key), One(key, SweepValue(key, w)))
LevelProbe(t) == Msg(sungrow_topic, One("Battery_Level_SOC", 100 * t))

\* the first message after start
Probe(m) ==
    /\ received = <<>>
    /\ on_message(m)
    /\ received' = <<m>>
    /\ UNCHANGED <<pc, cur>>

NextScale ==
    \/ /\ received = <<>>
       /\ \/ \E key \in PowerKeys, w \in SweepWatts : Probe(PowerProbe(key, w))
          \/ \E t \in SweepTenths : Probe(LevelProbe(t))
    \/ MainSleep

SpecScale == Init /\ [][NextScale]_vars

----------------------------------------------------------------------------
(* The vocabulary of the claims: bar lengths and columns as the            *)
(* specification words them, computed from the dictionaries alone.         *)

Floor(a, b) == a \div b

Clamp(x, lo, hi) == IF x < lo THEN lo ELSE IF x > hi THEN hi ELSE x

\* clamp(floor(watts / 625), 0, 8)
BarLength(watts) == Clamp(Floor(watts, Num(625)), 0, 8)

\* kilowatts to watts
Watts(kw) == 1000 * kw

DischargeBar == BarLength(Watts(cumulative_sungrow_values.sg_battery_discharging_power))
ChargeBar    == BarLength(Watts(cumulative_sungrow_values.sg_battery_charging_power))

\* floor(percent / 12.5)
LevelBar == Floor(cumulative_sungrow_values.sg_battery_level_soc, 12500)

\* the length and the colour the specification gives column x
ColumnLength(x) ==
    CASE x = 0 -> BarLength(cumulative_fronius_values.f_pvexport)
      [] x = 1 -> BarLength(Watts(cumulative_sungrow_values.sg_total_export_active__power))
      [] x = 2 -> BarLength(cumulative_fronius_values.f_pvimport)
      [] x = 3 -> BarLength(Watts(cumulative_sungrow_values.sg_purchased_power))
      [] x = 4 -> BarLength(cumulative_fronius_values.f_pvload)
      [] x = 5 -> BarLength(cumulative_fronius_values.f_pvgeneration)
      [] x = 6 -> IF DischargeBar > 0 THEN DischargeBar ELSE ChargeBar
      [] x = 7 -> LevelBar

ColumnColour(x) ==
    CASE x \in {0, 1} -> green
      [] x \in {2, 3} -> red
      [] x = 4 -> orange
      [] x = 5 -> lightgreen
      [] x = 6 -> IF DischargeBar > 0 THEN purple ELSE lightpurple
      [] x = 7 -> darkblue

\* the text symbol of a colour
SymbolOf(colour) ==
    CASE colour = green -> "G"
      [] colour = red -> "R"
      [] colour = orange -> "r"
      [] colour = lightgreen -> "g"
      [] colour = purple -> "P"
      [] colour = lightpurple -> "p"
      [] colour = darkblue -> "B"
      [] OTHER -> "O"

\* column x of the display and of the text grid is a bar of n cells from row 0
ColumnIs(x, n, colour) ==
    \A y \in Cells :
        /\ pixels[x][y] = IF y < n THEN colour ELSE blank
        /\ cli_matrix[x][y] = IF y < n THEN SymbolOf(colour) ELSE "O"

Unlit(x) == \A y \in Cells : pixels[x][y] = blank /\ cli_matrix[x][y] = "O"

----------------------------------------------------------------------------
(* Claims checked under Spec.                                              *)

\* C3: column 6 shows the discharging bar in purple whenever that bar is
\* longer than 0, whatever the charging value; the charging bar in light
\* purple only when the discharging bar is 0; nothing when both are 0; and
\* never both colours.
C3_BatteryPriority ==
    /\ DischargeBar > 0 => ColumnIs(6, DischargeBar, purple)
    /\ (DischargeBar = 0 /\ ChargeBar > 0) => ColumnIs(6, ChargeBar, lightpurple)
    /\ (DischargeBar = 0 /\ ChargeBar = 0) => Unlit(6)
    /\ ~ \E y1, y2 \in Cells : pixels[6][y1] = purple /\ pixels[6][y2] = lightpurple

\* discharging 2.0 kW beside charging 5.0 kW: a purple bar of length 3
C3_Witness ==
    /\ cumulative_sungrow_values.sg_battery_discharging_power = Num(2)
    /\ cumulative_sungrow_values.sg_battery_charging_power = Num(5)
    /\ raised = "none"
    /\ pixels[6][2] = purple
    /\ pixels[6][3] = blank

\* C4 as claimed: no update raises on a numeric value and every computed
\* bar length lies within 0..8 (so every write stays inside the grid).
C4_NoRangeError ==
    /\ raised \notin {"ValueError", "IndexError"}
    /\ \A k \in DOMAIN led : led[k] \in 0..8

\* C5 as claimed: no decoding error leaves the handler and messages keep
\* being handled after an undecodable one.
C5_UndecodableDropped ==
    /\ raised # "JSONDecodeError"
    /\ raised = "JSONDecodeError" => running

\* every lit cell of either grid is lit by the current dictionaries
NoStaleCell ==
    \A x, y \in Cells :
        /\ pixels[x][y] # blank => y < ColumnLength(x)
        /\ cli_matrix[x][y] # "O" => y < ColumnLength(x)

\* C6: every update repaints both grids from cleared ones, so no cell stays
\* lit unless the current dictionaries light it, and a step that leaves
\* both dictionaries as they were leaves both grids as they were.
C6_FullRecompute ==
    /\ []NoStaleCell
    /\ [][(/\ cumulative_fronius_values' = cumulative_fronius_values
           /\ cumulative_sungrow_values' = cumulative_sungrow_values)
          => (pixels' = pixels /\ cli_matrix' = cli_matrix)]_vars

\* an update has printed; column 0 holds a bar of two cells, column 5 none
C6_Witness ==
    /\ cumulative_fronius_values.f_pvexport = Num(1250)
    /\ cumulative_fronius_values.f_pvgeneration = 0
    /\ cumulative_sungrow_values.sg_battery_level_soc = 0
    /\ led.f_pvgeneration = 0
    /\ pixels[0][1] = green
    /\ pixels[0][2] = blank
    /\ Unlit(5)
    /\ stdout # <<>>

TextSymbol(r, c) == stdout[r + 2][2 * c + 1]

\* C9 as claimed: after an update that printed, position c of line r names
\* the colour of display pixel (column c, row r).
C9_TextShowsDisplay ==
    (stdout # <<>> /\ raised = "none") =>
        \A r, c \in Cells : TextSymbol(r, c) = SymbolOf(pixels[c][r])

----------------------------------------------------------------------------
(* Claims checked under SpecLog.                                           *)

\* the dictionary entry a payload key is merged into
FieldOf(key) ==
    CASE key = "pvImport"     -> "f_pvimport"
      [] key = "pvExport"     -> "f_pvexport"
      [] key = "pvLoad"       -> "f_pvload"
      [] key = "pvGeneration" -> "f_pvgeneration"
      [] key = "Purchased_Power"            -> "sg_purchased_power"
      [] key = "Total_Export_Active__Power" -> "sg_total_export_active__power"
      [] key = "Battery_Charging_Power"     -> "sg_battery_charging_power"
      [] key = "Battery_Discharging_Power"  -> "sg_battery_discharging_power"
      [] key = "Battery_Level_SOC"          -> "sg_battery_level_soc"

\* the value `key` had in the most recent of the first n messages that came
\* on `topic` and carried it; 0 when there is none
RECURSIVE LastCarried(_, _, _)
LastCarried(n, topic, key) ==
    IF n = 0 THEN 0
    ELSE IF /\ received[n].ok
            /\ received[n].topic = topic
            /\ key \in DOMAIN received[n].payload
         THEN received[n].payload[key]
         ELSE LastCarried(n - 1, topic, key)

\* C1: every entry of either dictionary is the value its key had in the
\* most recent message of its own topic that carried it, 0 if none did; and
\* a decodable message leaves no merge error behind.
C1_LastKnownValue ==
    /\ \A key \in FroniusKeys :
          cumulative_fronius_values[FieldOf(key)]
              = LastCarried(Len(received), fronius_topic, key)
    /\ \A key \in SungrowKeys :
          cumulative_sungrow_values[FieldOf(key)]
              = LastCarried(Len(received), sungrow_topic, key)
    /\ (received # <<>> /\ received[Len(received)].ok) => raised = "none"

\* three messages: pvExport set, then a Sungrow message carrying every key
\* (Fronius and unknown ones too), then pvExport alone set again
C1_Witness ==
    /\ Len(received) = 3
    /\ received[1] = Msg(fronius_topic, ExportImport)
    /\ received[2] = Msg(sungrow_topic, Everything)
    /\ received[3] = Msg(fronius_topic, One("pvExport", Num(1250)))
    /\ cumulative_fronius_values = [InitFronius EXCEPT !.f_pvexport = Num(1250)]
    /\ cumulative_sungrow_values.sg_battery_level_soc = 88500
    /\ raised = "none"

----------------------------------------------------------------------------
(* Claims checked under SpecScale.                                         *)

\* the watts behind each power entry of led
WattsOf(k) ==
    IF k \in DOMAIN cumulative_fronius_values
    THEN cumulative_fronius_values[k]
    ELSE Watts(cumulative_sungrow_values[k])

PowerLeds == DOMAIN led \ {"sg_battery_level_soc"}

C8_LevelScaling ==
    LET soc == cumulative_sungrow_values.sg_battery_level_soc
        n   == led.sg_battery_level_soc
    IN  (0 <= soc /\ soc <= Num(100)) =>
            /\ n = Floor(soc, 12500)
            /\ n \in 0..8
            /\ soc = 0 => n = 0
            /\ soc = Num(50) => n = 4
            /\ soc = 87500 => n = 7
            /\ soc = Num(100) => n = 8

\* level 87.5: length 7, rows 0-6 of column 7 dark blue
C8_Witness ==
    /\ cumulative_sungrow_values.sg_battery_level_soc = 87500
    /\ led.sg_battery_level_soc = 7
    /\ pixels[7][6] = darkblue
    /\ pixels[7][7] = blank

----------------------------------------------------------------------------
(* Claims checked under SpecLoop.                                          *)

\* the two dictionaries after the first n messages of `received`, each
\* merged whole and in order
RECURSIVE Merged(_)
Merged(n) ==
    IF n = 0 THEN [f |-> InitFronius, s |-> InitSungrow]
    ELSE LET before == Merged(n - 1)
             m == received[n]
         IN  IF ~m.ok THEN before
             ELSE IF m.topic = fronius_topic
             THEN [before EXCEPT !.f = update_cumulative_fronius_values(@, m.payload)]
             ELSE [before EXCEPT !.s = update_cumulative_sungrow_values(@, m.payload)]

\* both grids are the rendering of the dictionaries after n whole messages
RenderedFrom(n) ==
    \E d \in {Paint(ComputeLeds(Merged(n).f, Merged(n).s))} :
        pixels = d.pixels /\ cli_matrix = d.cli

Quiet == \A t \in Threads : pc[t] = "idle"

\* C10: the grids shown are always the rendering of the dictionaries after a
\* whole prefix of the received messages, never of a mix; between two calls
\* of the callback the prefix is everything received, and the dictionaries
\* hold exactly that prefix.
C10_NoTornRender ==
    /\ \E n \in 0..Len(received) : RenderedFrom(n)
    /\ Quiet =>
          /\ RenderedFrom(Len(received))
          /\ cumulative_fronius_values = Merged(Len(received)).f
          /\ cumulative_sungrow_values = Merged(Len(received)).s

\* three whole chains have run, on both topics
C10_Witness ==
    /\ Quiet
    /\ Len(received) = 3
    /\ received[1].topic = fronius_topic
    /\ received[2].topic = sungrow_topic
    /\ received[3].topic = fronius_topic
    /\ raised = "none"
    /\ pixels[0][1] = green
    /\ pixels[0][2] = blank
    /\ pixels[7][6] = darkblue

====
